---- MODULE Spec2Model ----
(***************************************************************************)
(* The multi-provider model registry (packages/core/src/config/            *)
(* model-registry.ts) as a state machine over a small JavaScript heap.     *)
(*                                                                         *)
(* Objects that the code shares by reference are heap cells: the           *)
(* `providers` object of a registry, each ProviderConfig and each `models` *)
(* array.  The top-level `data` object of a registry and the top-level     *)
(* object of a snapshot are never shared (the constructor spreads into a   *)
(* fresh literal, JSON.parse builds a fresh one), so they are kept by      *)
(* value, one per slot.  Strings the code inspects character by character  *)
(* (API keys, which it trims) are sequences of one-character strings.      *)
(***************************************************************************)
EXTENDS Integers, Sequences, FiniteSets, TLC

VARIABLES regs, snaps, heap, call, budget, gen, store, procs, done

vars == <<regs, snaps, heap, call, budget, gen, store, procs, done>>

\* The state of the generator dispatcher and of the command layer.
dispatchVars == <<gen>>

commandVars == <<store, procs, done>>

\* The state of the registry objects.
registryVars == <<regs, snaps, heap, call, budget>>

(***************************************************************************)
(* Names and values                                                        *)
(***************************************************************************)

\* enum ModelProvider
GEMINI == "gemini"

OPENAI == "openai"

ANTHROPIC == "anthropic"

ModelProvider == {GEMINI, OPENAI, ANTHROPIC}

\* The order in which the constructor's object literal inserts its keys.
DefaultProviderOrder == <<GEMINI, OPENAI, ANTHROPIC>>

\* JavaScript's undefined, as a string and as a character sequence.
undefined == "undefined"

undefinedKey == <<"undefined">>

\* Registry slots (instances) and snapshot slots (plain objects held by a
\* caller): "in" is a value the caller built and hands to the constructor,
\* "out" is a value returned by toJSON().
RegIds == {"A", "B"}

SnapIds == {"in", "out"}

Owners == RegIds \cup SnapIds

\* References.  Every object is allocated by exactly one slot, which is
\* written once, so <<owner, i>> is a fresh address whenever it is allocated.
NoRef == <<"undefined", 0>>

\* Object.prototype: every object literal and every JSON.parse result
\* inherits from it, and obj["__proto__"] evaluates to it.
ProtoRef == <<"Object.prototype", 0>>

SlotRefs == Owners \X (1..3)

CfgRefs == SlotRefs \cup {ProtoRef}

\* The provider arguments callers pass: the enum values, a string that names
\* nothing (the tests' 'invalid' as ModelProvider), and a string that names
\* an inherited property of every object.
ProviderArgs == ModelProvider \cup {"invalid", "__proto__"}

ModelArgs == {"gemini-2.5-flash", "gpt-4o", "claude-3-5-sonnet-20241022", "invalid-model"}

\* API keys: empty, whitespace only, and content with leading whitespace.
KeyArgs == {<<>>, <<" ", " ">>, <<" ", "k">>}

\* interface ModelInfo, with the fields the registry and the commands read.
ModelInfo(id, name, provider) == [id |-> id, name |-> name, provider |-> provider]

DefaultModels(p) ==
  IF p = GEMINI THEN
    << ModelInfo("gemini-2.5-pro", "Gemini 2.5 Pro", GEMINI),
       ModelInfo("gemini-2.5-flash", "Gemini 2.5 Flash", GEMINI),
       ModelInfo("gemini-1.5-pro", "Gemini 1.5 Pro", GEMINI) >>
  ELSE IF p = OPENAI THEN
    << ModelInfo("gpt-4o", "GPT-4o", OPENAI),
       ModelInfo("gpt-4o-mini", "GPT-4o mini", OPENAI),
       ModelInfo("gpt-4-turbo", "GPT-4 Turbo", OPENAI) >>
  ELSE
    << ModelInfo("claude-3-5-sonnet-20241022", "Claude 3.5 Sonnet", ANTHROPIC),
       ModelInfo("claude-3-5-haiku-20241022", "Claude 3.5 Haiku", ANTHROPIC),
       ModelInfo("claude-3-opus-20240229", "Claude 3 Opus", ANTHROPIC) >>

DefaultName(p) ==
  IF p = GEMINI THEN "Google Gemini"
  ELSE IF p = OPENAI THEN "OpenAI"
  ELSE "Anthropic Claude"

DefaultCurrentProvider == GEMINI

DefaultCurrentModel == "gemini-2.5-pro"

(***************************************************************************)
(* The heap                                                                *)
(***************************************************************************)

\* A free cell of each kind.
FreeMap == [live |-> FALSE, entries |-> <<>>]

FreeCfg == [live |-> FALSE, name |-> undefined, provider |-> undefined,
            apiKey |-> undefinedKey, models |-> NoRef]

FreeArr == [live |-> FALSE, elems |-> <<>>]

\* Object.prototype has none of the properties the registry reads until a
\* write through a reference to it creates one.
PristinePrototype == [FreeCfg EXCEPT !.live = TRUE]

EmptyHeap ==
  [maps |-> [o \in Owners |-> FreeMap],
   cfgs |-> [c \in CfgRefs |-> IF c = ProtoRef THEN PristinePrototype ELSE FreeCfg],
   arrs |-> [a \in SlotRefs |-> FreeArr]]

\* obj[key] on a providers object: an own property, else the inherited
\* __proto__ accessor, else undefined.
OwnIndex(hp, mapRef, key) ==
  {i \in 1..Len(hp.maps[mapRef].entries) : hp.maps[mapRef].entries[i].key = key}

Lookup(hp, mapRef, key) ==
  IF OwnIndex(hp, mapRef, key) # {}
    THEN hp.maps[mapRef].entries[CHOOSE i \in OwnIndex(hp, mapRef, key) : TRUE].ref
  ELSE IF key = "__proto__" THEN ProtoRef
  ELSE NoRef

\* cfg.apiKey and cfg.models: the own property, else the one inherited
\* from Object.prototype.
GetApiKey(hp, ref) ==
  IF hp.cfgs[ref].apiKey # undefinedKey THEN hp.cfgs[ref].apiKey
  ELSE hp.cfgs[ProtoRef].apiKey

GetModels(hp, ref) ==
  IF hp.cfgs[ref].models # NoRef THEN hp.cfgs[ref].models
  ELSE hp.cfgs[ProtoRef].models

\* The constructor's object literal: a providers object, three
\* ProviderConfig objects and three models arrays, allocated by `o`.
AllocDefaults(hp, o) ==
  [maps |-> [hp.maps EXCEPT ![o] =
               [live |-> TRUE,
                entries |-> [i \in 1..3 |->
                               [key |-> DefaultProviderOrder[i], ref |-> <<o, i>>]]]],
   cfgs |-> [c \in CfgRefs |->
               IF c \in SlotRefs /\ c[1] = o
                 THEN [live |-> TRUE,
                       name |-> DefaultName(DefaultProviderOrder[c[2]]),
                       provider |-> DefaultProviderOrder[c[2]],
                       apiKey |-> undefinedKey,
                       models |-> c]
                 ELSE hp.cfgs[c]],
   arrs |-> [a \in SlotRefs |->
               IF a[1] = o
                 THEN [live |-> TRUE, elems |-> DefaultModels(DefaultProviderOrder[a[2]])]
                 ELSE hp.arrs[a]]]

(***************************************************************************)
(* Strings                                                                 *)
(***************************************************************************)

IsWhiteSpace(c) == c = " "

RECURSIVE trimStart(_)
trimStart(s) ==
  IF s = <<>> THEN s
  ELSE IF IsWhiteSpace(Head(s)) THEN trimStart(Tail(s))
  ELSE s

RECURSIVE trimEnd(_)
trimEnd(s) ==
  IF s = <<>> THEN s
  ELSE IF IsWhiteSpace(s[Len(s)]) THEN trimEnd(SubSeq(s, 1, Len(s) - 1))
  ELSE s

\* String.prototype.trim
trim(s) == trimEnd(trimStart(s))

(***************************************************************************)
(* class ModelRegistry                                                     *)
(***************************************************************************)

\* A registry slot no constructor has filled, and the `data` of one it has.
NoRegistry ==
  [live |-> FALSE, currentProvider |-> undefined, currentModel |-> undefined,
   providers |-> undefined]

\* A snapshot slot no caller has filled.  `top` says which top-level object
\* the caller's variable refers to: "own", a plain object of its own whose
\* own properties are `fields`, or a registry id, that registry's `data`.
NoSnapshot ==
  [live |-> FALSE, top |-> "own", fields |-> {}, currentProvider |-> undefined,
   currentModel |-> undefined, providers |-> undefined]

\* A constructor that spreads initialData first and the defaults over it.
ModelRegistryDefaultsLast(hp, o, initialData) ==
  [data |-> [live |-> TRUE, currentProvider |-> DefaultCurrentProvider,
             currentModel |-> DefaultCurrentModel, providers |-> o],
   heap |-> AllocDefaults(hp, o)]

\* constructor(initialData?): the default literal, then ...initialData, which
\* copies each own property of initialData over the default, by reference
\* for the providers object.  The registry allocated by `o`.
ModelRegistry(hp, o, initialData) ==
  [data |->
     [live |-> TRUE,
      currentProvider |->
        IF "currentProvider" \in initialData.fields
          THEN initialData.currentProvider ELSE DefaultCurrentProvider,
      currentModel |->
        IF "currentModel" \in initialData.fields
          THEN initialData.currentModel ELSE DefaultCurrentModel,
      providers |->
        IF "providers" \in initialData.fields
          THEN initialData.providers ELSE o],
   heap |-> AllocDefaults(hp, o)]

getCurrentProvider(d) == d.currentProvider

getCurrentModel(d) == d.currentModel

\* Array.prototype.find over a models array, by id: the first match, or
\* the empty sequence for undefined.
FindModel(elems, modelId) ==
  LET hits == {i \in 1..Len(elems) : elems[i].id = modelId}
  IN  IF hits = {} THEN <<>>
      ELSE <<elems[CHOOSE i \in hits : \A j \in hits : i <= j]>>

\* getCurrentModelInfo(): provider?.models.find(...).  <<>> is undefined,
\* <<info>> a ModelInfo; reading .find of an undefined `models` throws.
getCurrentModelInfoThrows(d, hp) ==
  /\ Lookup(hp, d.providers, d.currentProvider) # NoRef
  /\ GetModels(hp, Lookup(hp, d.providers, d.currentProvider)) = NoRef

getCurrentModelInfo(d, hp) ==
  LET provider == Lookup(hp, d.providers, d.currentProvider)
  IN  IF provider = NoRef \/ GetModels(hp, provider) = NoRef THEN <<>>
      ELSE FindModel(hp.arrs[GetModels(hp, provider)].elems, d.currentModel)

\* getProviders(): Object.values(this.data.providers), the own values in
\* insertion order, as references.
getProviders(d, hp) ==
  [i \in 1..Len(hp.maps[d.providers].entries) |-> hp.maps[d.providers].entries[i].ref]

\* getProvider(provider): a reference, or NoRef for undefined.
getProvider(d, hp, provider) == Lookup(hp, d.providers, provider)

\* getModelsForProvider(provider): this.data.providers[provider]?.models || []
getModelsForProvider(d, hp, provider) ==
  LET ref == Lookup(hp, d.providers, provider)
  IN  IF ref = NoRef \/ GetModels(hp, ref) = NoRef THEN <<>>
      ELSE hp.arrs[GetModels(hp, ref)].elems

\* A setCurrentModel that accepts any model of a known provider's name and
\* assigns the provider alone when the model is not one of its models.
setCurrentModelProviderOnly(d, hp, provider, modelId) ==
  LET providerConfig == Lookup(hp, d.providers, provider)
  IN  IF providerConfig = NoRef THEN [data |-> d, ret |-> "false"]
      ELSE IF GetModels(hp, providerConfig) = NoRef THEN [data |-> d, ret |-> "throw"]
      ELSE IF FindModel(hp.arrs[GetModels(hp, providerConfig)].elems, modelId) = <<>>
        THEN [data |-> [d EXCEPT !.currentProvider = provider], ret |-> "true"]
      ELSE [data |-> [d EXCEPT !.currentProvider = provider, !.currentModel = modelId],
            ret |-> "true"]

\* A setCurrentModel that assigns the provider before it has validated the
\* model.
setCurrentModelProviderFirst(d, hp, provider, modelId) ==
  LET providerConfig == Lookup(hp, d.providers, provider)
  IN  IF providerConfig = NoRef THEN [data |-> d, ret |-> "false"]
      ELSE IF GetModels(hp, providerConfig) = NoRef
        THEN [data |-> [d EXCEPT !.currentProvider = provider], ret |-> "throw"]
      ELSE IF FindModel(hp.arrs[GetModels(hp, providerConfig)].elems, modelId) = <<>>
        THEN [data |-> [d EXCEPT !.currentProvider = provider], ret |-> "false"]
      ELSE [data |-> [d EXCEPT !.currentProvider = provider, !.currentModel = modelId],
            ret |-> "true"]

\* setCurrentModel(provider, modelId): the new `data` and what the call
\* does: returns true, returns false, or throws a TypeError (reading .find
\* of undefined) before any assignment.
setCurrentModel(d, hp, provider, modelId) ==
  LET providerConfig == Lookup(hp, d.providers, provider)
  IN  IF providerConfig = NoRef THEN [data |-> d, ret |-> "false"]
      ELSE IF GetModels(hp, providerConfig) = NoRef THEN [data |-> d, ret |-> "throw"]
      ELSE IF FindModel(hp.arrs[GetModels(hp, providerConfig)].elems, modelId) = <<>>
        THEN [data |-> d, ret |-> "false"]
      ELSE [data |-> [d EXCEPT !.currentProvider = provider, !.currentModel = modelId],
            ret |-> "true"]

\* setProviderApiKey(provider, apiKey): the new heap and the result.  The
\* write goes to whatever object the lookup returned.
setProviderApiKey(d, hp, provider, apiKey) ==
  LET providerConfig == Lookup(hp, d.providers, provider)
  IN  IF providerConfig = NoRef THEN [heap |-> hp, ret |-> "false"]
      ELSE [heap |-> [hp EXCEPT !.cfgs[providerConfig].apiKey = apiKey], ret |-> "true"]

\* getProviderApiKey(provider): this.data.providers[provider]?.apiKey
getProviderApiKey(d, hp, provider) ==
  LET ref == Lookup(hp, d.providers, provider)
  IN  IF ref = NoRef THEN undefinedKey ELSE GetApiKey(hp, ref)

\* hasValidApiKey(provider): !!apiKey && apiKey.trim().length > 0
hasValidApiKey(d, hp, provider) ==
  LET apiKey == getProviderApiKey(d, hp, provider)
  IN  /\ apiKey # undefinedKey
      /\ apiKey # <<>>
      /\ Len(trim(apiKey)) > 0

\* JSON.stringify keeps the own properties whose value is not undefined.
DefinedFields(d) ==
  {f \in {"currentProvider", "currentModel", "providers"} : d[f] # undefined}

\* A toJSON that copies only the top-level object ({...this.data}).
toJSONShallow(this, d, hp, s) ==
  [snap |-> [live |-> TRUE, top |-> "own", fields |-> DefinedFields(d),
             currentProvider |-> d.currentProvider,
             currentModel |-> d.currentModel,
             providers |-> d.providers],
   heap |-> hp]

\* A toJSON whose copy loses the credentials.
toJSONWithoutKeys(this, d, hp, s) ==
  LET src == hp.maps[d.providers].entries
  IN  [snap |-> [live |-> TRUE, top |-> "own", fields |-> DefinedFields(d),
                 currentProvider |-> d.currentProvider,
                 currentModel |-> d.currentModel,
                 providers |-> s],
       heap |->
         [maps |-> [hp.maps EXCEPT ![s] =
                      [live |-> TRUE,
                       entries |-> [i \in 1..Len(src) |->
                                      [key |-> src[i].key, ref |-> <<s, i>>]]]],
          cfgs |-> [c \in CfgRefs |->
                      IF c \in SlotRefs /\ c[1] = s /\ c[2] <= Len(src)
                        THEN [hp.cfgs[src[c[2]].ref] EXCEPT
                                !.apiKey = undefinedKey,
                                !.models = IF @ # NoRef THEN c ELSE NoRef]
                        ELSE hp.cfgs[c]],
          arrs |-> [a \in SlotRefs |->
                      IF a[1] = s /\ a[2] <= Len(src)
                           /\ hp.cfgs[src[a[2]].ref].models # NoRef
                        THEN hp.arrs[hp.cfgs[src[a[2]].ref].models]
                        ELSE hp.arrs[a]]]]

\* toJSON(): JSON.parse(JSON.stringify(this.data)), the copy allocated by
\* `s`.  stringify walks the own enumerable properties in insertion order
\* and drops the undefined ones; parse builds a new object for every object
\* and array it reads.
toJSON(this, d, hp, s) ==
  LET src == hp.maps[d.providers].entries
  IN  [snap |-> [live |-> TRUE, top |-> "own", fields |-> DefinedFields(d),
                 currentProvider |-> d.currentProvider,
                 currentModel |-> d.currentModel,
                 providers |-> s],
       heap |->
         [maps |-> [hp.maps EXCEPT ![s] =
                      [live |-> TRUE,
                       entries |-> [i \in 1..Len(src) |->
                                      [key |-> src[i].key, ref |-> <<s, i>>]]]],
          cfgs |-> [c \in CfgRefs |->
                      IF c \in SlotRefs /\ c[1] = s /\ c[2] <= Len(src)
                        THEN [hp.cfgs[src[c[2]].ref] EXCEPT
                                !.models = IF @ # NoRef THEN c ELSE NoRef]
                        ELSE hp.cfgs[c]],
          arrs |-> [a \in SlotRefs |->
                      IF a[1] = s /\ a[2] <= Len(src)
                           /\ hp.cfgs[src[a[2]].ref].models # NoRef
                        THEN hp.arrs[hp.cfgs[src[a[2]].ref].models]
                        ELSE hp.arrs[a]]]]

\* static fromJSON(data): new ModelRegistry(data)
fromJSON(hp, o, data) == ModelRegistry(hp, o, data)

(***************************************************************************)
(* Values a caller hands to the constructor                                *)
(***************************************************************************)

\* The `providers` values a Partial<ModelRegistryData> read back from the
\* settings store carries: the full catalog with a stored OpenAI key, the
\* same catalog with its keys in another order, and an object that holds
\* one provider's credential and nothing else.
ProviderShapes == {"full", "reordered", "keyOnly"}

StoredKey == <<" ", "k">>

ProvidersFull(hp, o) ==
  [AllocDefaults(hp, o) EXCEPT !.cfgs[<<o, 2>>].apiKey = StoredKey]

ProvidersReordered(hp, o) ==
  [AllocDefaults(hp, o) EXCEPT
     !.maps[o].entries = <<[key |-> OPENAI, ref |-> <<o, 2>>],
                           [key |-> GEMINI, ref |-> <<o, 1>>],
                           [key |-> ANTHROPIC, ref |-> <<o, 3>>]>>]

ProvidersKeyOnly(hp, o) ==
  [hp EXCEPT
     !.maps[o] = [live |-> TRUE, entries |-> <<[key |-> OPENAI, ref |-> <<o, 1>>]>>],
     !.cfgs[<<o, 1>>] = [FreeCfg EXCEPT !.live = TRUE, !.apiKey = StoredKey]]

AllocProviders(hp, o, shape) ==
  IF shape = "full" THEN ProvidersFull(hp, o)
  ELSE IF shape = "reordered" THEN ProvidersReordered(hp, o)
  ELSE ProvidersKeyOnly(hp, o)

SnapshotFields == {"currentProvider", "currentModel", "providers"}

(***************************************************************************)
(* Calls                                                                   *)
(***************************************************************************)

\* The top-level object a snapshot variable refers to, as a snapshot value.
SnapData(s) ==
  IF snaps[s].top = "own" THEN snaps[s]
  ELSE [live |-> TRUE, top |-> snaps[s].top, fields |-> DefinedFields(regs[snaps[s].top]),
        currentProvider |-> regs[snaps[s].top].currentProvider,
        currentModel |-> regs[snaps[s].top].currentModel,
        providers |-> regs[snaps[s].top].providers]

Called(op, r, s, ret) == [op |-> op, reg |-> r, snap |-> s, ret |-> ret]

\* A caller builds the value it will pass to the constructor.
MakeInput(fields, cp, cm, shape) ==
  /\ ~snaps["in"].live
  /\ snaps' = [snaps EXCEPT !["in"] =
                 [live |-> TRUE, top |-> "own", fields |-> fields,
                  currentProvider |-> IF "currentProvider" \in fields THEN cp ELSE undefined,
                  currentModel |-> IF "currentModel" \in fields THEN cm ELSE undefined,
                  providers |-> IF "providers" \in fields THEN "in" ELSE undefined]]
  /\ heap' = IF "providers" \in fields THEN AllocProviders(heap, "in", shape) ELSE heap
  /\ call' = Called("input", "none", "in", "none")
  /\ UNCHANGED regs

\* new ModelRegistry()
NewRegistry(r) ==
  /\ ~regs[r].live
  /\ LET made == ModelRegistry(heap, r, NoSnapshot)
     IN  /\ regs' = [regs EXCEPT ![r] = made.data]
         /\ heap' = made.heap
  /\ call' = Called("new", r, "none", "none")
  /\ UNCHANGED snaps

\* ModelRegistry.fromJSON(snaps[s])
FromJSON(r, s) ==
  /\ ~regs[r].live
  /\ snaps[s].live
  /\ LET made == fromJSON(heap, r, SnapData(s))
     IN  /\ regs' = [regs EXCEPT ![r] = made.data]
         /\ heap' = made.heap
  /\ call' = Called("fromJSON", r, s, "none")
  /\ UNCHANGED snaps

SetCurrentModel(r, p, m) ==
  /\ regs[r].live
  /\ LET res == setCurrentModel(regs[r], heap, p, m)
     IN  /\ regs' = [regs EXCEPT ![r] = res.data]
         /\ call' = Called("setCurrentModel", r, "none", res.ret)
  /\ UNCHANGED <<snaps, heap>>

SetProviderApiKey(r, p, k) ==
  /\ regs[r].live
  /\ LET res == setProviderApiKey(regs[r], heap, p, k)
     IN  /\ heap' = res.heap
         /\ call' = Called("setProviderApiKey", r, "none", res.ret)
  /\ UNCHANGED <<regs, snaps>>

\* snaps[s] = regs[r].toJSON()
ToJSON(r, s) ==
  /\ regs[r].live
  /\ ~snaps[s].live
  /\ LET res == toJSON(r, regs[r], heap, s)
     IN  /\ snaps' = [snaps EXCEPT ![s] = res.snap]
         /\ heap' = res.heap
  /\ call' = Called("toJSON", r, s, "none")
  /\ UNCHANGED regs

\* A caller assigns the selection fields of a value it holds:
\* snap.currentProvider = p; snap.currentModel = m
SnapSetSelection(s, p, m) ==
  /\ snaps[s].live
  /\ IF snaps[s].top = "own"
       THEN /\ snaps' = [snaps EXCEPT ![s].currentProvider = p, ![s].currentModel = m,
                                      ![s].fields = @ \cup {"currentProvider", "currentModel"}]
            /\ UNCHANGED regs
       ELSE /\ regs' = [regs EXCEPT ![snaps[s].top].currentProvider = p,
                                    ![snaps[s].top].currentModel = m]
            /\ UNCHANGED snaps
  /\ call' = Called("snapSetSelection", "none", s, "none")
  /\ UNCHANGED heap

\* snap.providers[p].apiKey = k, for a provider the value holds.
SnapSetApiKey(s, p, k) ==
  /\ snaps[s].live
  /\ "providers" \in SnapData(s).fields
  /\ OwnIndex(heap, SnapData(s).providers, p) # {}
  /\ heap' = [heap EXCEPT !.cfgs[Lookup(heap, SnapData(s).providers, p)].apiKey = k]
  /\ call' = Called("snapSetApiKey", "none", s, "none")
  /\ UNCHANGED <<regs, snaps>>

\* snap.providers[p].models.pop(), for a provider the value holds.
SnapPopModel(s, p) ==
  /\ snaps[s].live
  /\ "providers" \in SnapData(s).fields
  /\ OwnIndex(heap, SnapData(s).providers, p) # {}
  /\ LET models == heap.cfgs[Lookup(heap, SnapData(s).providers, p)].models
     IN  /\ models # NoRef
         /\ heap.arrs[models].elems # <<>>
         /\ heap' = [heap EXCEPT !.arrs[models].elems = SubSeq(@, 1, Len(@) - 1)]
  /\ call' = Called("snapPopModel", "none", s, "none")
  /\ UNCHANGED <<regs, snaps>>

(***************************************************************************)
(* What a caller can observe                                               *)
(***************************************************************************)

\* A ProviderConfig object by value: its own properties.
ConfigValue(hp, ref) ==
  [name |-> hp.cfgs[ref].name,
   provider |-> hp.cfgs[ref].provider,
   apiKey |-> hp.cfgs[ref].apiKey,
   models |-> IF hp.cfgs[ref].models = NoRef THEN <<undefined>>
              ELSE hp.arrs[hp.cfgs[ref].models].elems]

\* A providers object by value: its own keys, in order, with their values.
ProvidersValue(hp, mapRef) ==
  [i \in 1..Len(hp.maps[mapRef].entries) |->
     [key |-> hp.maps[mapRef].entries[i].key,
      value |-> ConfigValue(hp, hp.maps[mapRef].entries[i].ref)]]

\* Every result a registry's getters return.
Observe(d, hp) ==
  [getCurrentProvider |-> getCurrentProvider(d),
   getCurrentModel |-> getCurrentModel(d),
   getCurrentModelInfo |->
     IF getCurrentModelInfoThrows(d, hp) THEN <<"throw">> ELSE getCurrentModelInfo(d, hp),
   getProviders |-> [i \in 1..Len(getProviders(d, hp)) |->
                       ConfigValue(hp, getProviders(d, hp)[i])],
   getModelsForProvider |-> [p \in ProviderArgs |-> getModelsForProvider(d, hp, p)],
   getProviderApiKey |-> [p \in ProviderArgs |-> getProviderApiKey(d, hp, p)],
   hasValidApiKey |-> [p \in ProviderArgs |-> hasValidApiKey(d, hp, p)]]

\* A snapshot by value (what a deep comparison of it sees).
SnapshotValue(sn, hp) ==
  [fields |-> sn.fields,
   currentProvider |-> sn.currentProvider,
   currentModel |-> sn.currentModel,
   providers |-> IF "providers" \in sn.fields THEN ProvidersValue(hp, sn.providers)
                 ELSE <<>>]

(***************************************************************************)
(* Provider content generators (core/multiProviderContentGenerator)        *)
(***************************************************************************)

\* The four methods of the ContentGenerator interface.
Methods == {"generateContent", "generateContentStream", "countTokens", "embedContent"}

\* The provider values a MultiProviderConfig is built with, and its models.
ConfigProviders == ModelProvider \cup {"invalid"}

ConfigModels == {"gpt-4o", "claude-3-5-sonnet-20241022"}

\* interface MultiProviderConfig, with the fields the factory reads.
MultiProviderConfig(provider, model) == [provider |-> provider, model |-> model]

\* No generator constructed yet; no error raised.
NoGenerator ==
  [state |-> "none", class |-> "none", config |-> MultiProviderConfig(undefined, undefined),
   error |-> <<>>, log |-> <<>>]

\* new Error('<Name> provider is not yet implemented. Please use Gemini
\* provider for now.'), word by word.
NotImplemented(name) ==
  <<name, "provider", "is", "not", "yet", "implemented.",
    "Please", "use", "Gemini", "provider", "for", "now.">>

\* What awaiting a call of an async method gives: the promise it returned
\* is fulfilled with a response or rejected with an error; `chunks` counts
\* the elements a returned stream has produced.
Rejected(error) == [settled |-> "rejected", error |-> error, response |-> <<>>, chunks |-> 0]

\* class OpenAIContentGenerator: each of the four async methods throws, so
\* the promise it returns is rejected.
OpenAIContentGenerator(method) ==
  CASE method = "generateContent" -> Rejected(NotImplemented("OpenAI"))
    [] method = "generateContentStream" -> Rejected(NotImplemented("OpenAI"))
    [] method = "countTokens" -> Rejected(NotImplemented("OpenAI"))
    [] method = "embedContent" -> Rejected(NotImplemented("OpenAI"))

\* An Anthropic generator whose stream method carries the OpenAI message.
AnthropicContentGeneratorCopied(method) ==
  CASE method = "generateContent" -> Rejected(NotImplemented("Anthropic"))
    [] method = "generateContentStream" -> Rejected(NotImplemented("OpenAI"))
    [] method = "countTokens" -> Rejected(NotImplemented("Anthropic"))
    [] method = "embedContent" -> Rejected(NotImplemented("Anthropic"))

\* class AnthropicContentGenerator
AnthropicContentGenerator(method) ==
  CASE method = "generateContent" -> Rejected(NotImplemented("Anthropic"))
    [] method = "generateContentStream" -> Rejected(NotImplemented("Anthropic"))
    [] method = "countTokens" -> Rejected(NotImplemented("Anthropic"))
    [] method = "embedContent" -> Rejected(NotImplemented("Anthropic"))

\* A factory whose default case falls back to the OpenAI generator.
createProviderContentGeneratorDefaulting(config) ==
  IF config.provider = ANTHROPIC
    THEN [NoGenerator EXCEPT !.state = "made", !.class = "AnthropicContentGenerator",
                             !.config = config]
    ELSE [NoGenerator EXCEPT !.state = "made", !.class = "OpenAIContentGenerator",
                             !.config = config]

\* createProviderContentGenerator(config): a switch on config.provider that
\* returns a new generator or throws new Error(`Unsupported provider: ...`).
createProviderContentGenerator(config) ==
  IF config.provider = OPENAI
    THEN [NoGenerator EXCEPT !.state = "made", !.class = "OpenAIContentGenerator",
                             !.config = config]
  ELSE IF config.provider = ANTHROPIC
    THEN [NoGenerator EXCEPT !.state = "made", !.class = "AnthropicContentGenerator",
                             !.config = config]
  ELSE [NoGenerator EXCEPT !.state = "failed", !.config = config,
                           !.error = <<"Unsupported", "provider:", config.provider>>]

\* How many method calls are made on one generator.
MaxCalls == 3

\* const generator = createProviderContentGenerator(config)
CreateGenerator(config) ==
  /\ gen.state = "none"
  /\ gen' = createProviderContentGenerator(config)
  /\ UNCHANGED <<registryVars, commandVars>>

\* await generator.<method>(request), on the object the factory returned.
CallMethod(method) ==
  /\ gen.state = "made"
  /\ Len(gen.log) < MaxCalls
  /\ gen' = [gen EXCEPT !.log = Append(@,
               [method |-> method,
                outcome |-> IF gen.class = "OpenAIContentGenerator"
                              THEN OpenAIContentGenerator(method)
                              ELSE AnthropicContentGenerator(method)])]
  /\ UNCHANGED <<registryVars, commandVars>>

(***************************************************************************)
(* The /models command (cli/ui/commands/modelsCommand)                     *)
(***************************************************************************)

\* An argument string is a sequence of pieces: a word, or " " for a run of
\* whitespace.  String.prototype.split(/\s+/) of a trimmed string: the
\* words, and one empty word for the empty string.
split(s) ==
  IF s = <<>> THEN <<"">>
  ELSE SelectSeq(s, LAMBDA c : ~IsWhiteSpace(c))

\* String.prototype.toLowerCase, on the words that are typed in upper case.
toLowerCase(w) ==
  CASE w = "LIST" -> "list"
    [] w = "Set" -> "set"
    [] w = "GPT" -> "gpt"
    [] w = "Claude" -> "claude"
    [] w = "Google" -> "google"
    [] w = "Unknown" -> "unknown"
    [] OTHER -> w

\* parts.slice(from).join(' '), as the characters of the joined string.
RECURSIVE join(_)
join(words) ==
  IF words = <<>> THEN <<>>
  ELSE IF Len(words) = 1 THEN <<words[1]>>
  ELSE <<words[1], " ">> \o join(Tail(words))

\* The `switch (providerName)` of the set case: a ModelProvider, or "none"
\* for its default case.
setProviderSwitch(providerName) ==
  CASE providerName \in {"gemini", "google"} -> GEMINI
    [] providerName \in {"openai", "gpt"} -> OPENAI
    [] providerName \in {"anthropic", "claude"} -> ANTHROPIC
    [] OTHER -> "none"

\* A key-case switch that takes any token for a provider id.
keyProviderSwitchOpen(keyProviderName) ==
  CASE keyProviderName \in {"gemini", "google"} -> GEMINI
    [] keyProviderName \in {"openai", "gpt"} -> OPENAI
    [] keyProviderName \in {"anthropic", "claude"} -> ANTHROPIC
    [] OTHER -> keyProviderName

\* The `switch (keyProviderName)` of the key case.
keyProviderSwitch(keyProviderName) ==
  CASE keyProviderName \in {"gemini", "google"} -> GEMINI
    [] keyProviderName \in {"openai", "gpt"} -> OPENAI
    [] keyProviderName \in {"anthropic", "claude"} -> ANTHROPIC
    [] OTHER -> "none"

\* settings.merged.modelRegistry as an object in the memory of the
\* invocation: the value read from the store, its objects allocated by `o`.
Materialize(hp, o, v) ==
  [snap |-> [live |-> TRUE, top |-> "own", fields |-> v.fields,
             currentProvider |-> v.currentProvider,
             currentModel |-> v.currentModel,
             providers |-> IF "providers" \in v.fields THEN o ELSE undefined],
   heap |->
     IF "providers" \notin v.fields THEN hp
     ELSE
       [maps |-> [hp.maps EXCEPT ![o] =
                    [live |-> TRUE,
                     entries |-> [i \in 1..Len(v.providers) |->
                                    [key |-> v.providers[i].key, ref |-> <<o, i>>]]]],
        cfgs |-> [c \in CfgRefs |->
                    IF c \in SlotRefs /\ c[1] = o /\ c[2] <= Len(v.providers)
                      THEN [live |-> TRUE,
                            name |-> v.providers[c[2]].value.name,
                            provider |-> v.providers[c[2]].value.provider,
                            apiKey |-> v.providers[c[2]].value.apiKey,
                            models |-> IF v.providers[c[2]].value.models = <<undefined>>
                                         THEN NoRef ELSE c]
                      ELSE hp.cfgs[c]],
        arrs |-> [a \in SlotRefs |->
                    IF a[1] = o /\ a[2] <= Len(v.providers)
                         /\ v.providers[a[2]].value.models # <<undefined>>
                      THEN [live |-> TRUE, elems |-> v.providers[a[2]].value.models]
                      ELSE hp.arrs[a]]]]

\* What an invocation does: the result it returns (none when it throws)
\* and, in order, the registry mutators it called and the writes it made
\* to the settings store.
Message(messageType, content) ==
  [type |-> "message", messageType |-> messageType, content |-> content]

Returns(result, events) == [throws |-> FALSE, result |-> result, events |-> events]

Throws(events) ==
  [throws |-> TRUE, result |-> [type |-> "none", messageType |-> "none", content |-> <<>>],
   events |-> events]

MutatorCall(op, provider, arg, ret) ==
  [op |-> op, provider |-> provider, arg |-> arg, ret |-> ret]

\* context.services.settings.setValue(SettingScope.User, 'modelRegistry', value)
setValue(value) ==
  [op |-> "setValue", scope |-> "User", key |-> "modelRegistry", value |-> value]

\* formatModelsList(registry): per provider its header, its key status and
\* its models, as the strings the template literals interpolate.
RECURSIVE formatModels(_, _, _)
formatModels(models, isCurrentProvider, currentModel) ==
  IF models = <<>> THEN <<>>
  ELSE <<IF isCurrentProvider /\ models[1].id = currentModel THEN "->" ELSE "  ",
         models[1].name, models[1].id>>
       \o formatModels(Tail(models), isCurrentProvider, currentModel)

RECURSIVE formatSections(_, _, _)
formatSections(d, hp, providers) ==
  IF providers = <<>> THEN <<>>
  ELSE LET provider == hp.cfgs[providers[1]]
           isCurrentProvider == provider.provider = getCurrentProvider(d)
       IN  <<provider.name, IF isCurrentProvider THEN "(current)" ELSE "">>
           \o <<IF hasValidApiKey(d, hp, provider.provider)
                  THEN "API key configured" ELSE "API key required">>
           \o formatModels(hp.arrs[GetModels(hp, providers[1])].elems,
                           isCurrentProvider, getCurrentModel(d))
           \o formatSections(d, hp, Tail(providers))

\* provider.models.map throws a TypeError for a provider without `models`.
formatModelsListThrows(d, hp) ==
  \E i \in 1..Len(getProviders(d, hp)) : GetModels(hp, getProviders(d, hp)[i]) = NoRef

formatModelsList(d, hp) == formatSections(d, hp, getProviders(d, hp))

\* case 'list' / 'ls'
listCase(d, hp) ==
  IF formatModelsListThrows(d, hp) THEN Throws(<<>>)
  ELSE Returns(Message("info", <<"Available AI Models and Providers:">>
                                 \o formatModelsList(d, hp)), <<>>)

\* The ids of a sequence of models (models.map((m) => m.id)).
ModelIds(models) == [i \in 1..Len(models) |-> models[i].id]

\* A set case that persists the registry whatever setCurrentModel returned.
setCaseAlwaysSaving(d, hp, parts) ==
  IF Len(parts) < 2 THEN Returns(Message("error", <<"Usage: /models set <provider> <model>">>), <<>>)
  ELSE
    LET providerName == toLowerCase(parts[2])
        modelId == IF Len(parts) >= 3 THEN parts[3] ELSE undefined
        provider == setProviderSwitch(providerName)
    IN  IF provider = "none"
          THEN Returns(Message("error", <<"Unknown provider:", providerName>>), <<>>)
        ELSE IF modelId = undefined
          THEN Returns(Message("info", <<"Available models for", providerName>>
                                         \o ModelIds(getModelsForProvider(d, hp, provider))),
                       <<>>)
        ELSE
          LET res == setCurrentModel(d, hp, provider, modelId)
              called == MutatorCall("setCurrentModel", provider, <<modelId>>, res.ret)
              saved == toJSON("A", res.data, hp, "out")
          IN  IF res.ret = "throw" THEN Throws(<<called>>)
              ELSE Returns(Message(IF res.ret = "true" THEN "info" ELSE "error",
                                   <<"Invalid model:", modelId, "for provider", providerName>>),
                           <<called, setValue(SnapshotValue(saved.snap, saved.heap))>>)

\* A set case that persists the registry before it changes the selection.
setCaseSavingBefore(d, hp, parts) ==
  IF Len(parts) < 2 THEN Returns(Message("error", <<"Usage: /models set <provider> <model>">>), <<>>)
  ELSE
    LET providerName == toLowerCase(parts[2])
        modelId == IF Len(parts) >= 3 THEN parts[3] ELSE undefined
        provider == setProviderSwitch(providerName)
    IN  IF provider = "none"
          THEN Returns(Message("error", <<"Unknown provider:", providerName>>), <<>>)
        ELSE IF modelId = undefined
          THEN Returns(Message("info", <<"Available models for", providerName>>
                                         \o ModelIds(getModelsForProvider(d, hp, provider))),
                       <<>>)
        ELSE
          LET res == setCurrentModel(d, hp, provider, modelId)
              called == MutatorCall("setCurrentModel", provider, <<modelId>>, res.ret)
              saved == toJSON("A", d, hp, "out")
              modelInfo == getCurrentModelInfo(res.data, hp)
          IN  IF res.ret = "throw" THEN Throws(<<called>>)
              ELSE IF res.ret = "false"
                THEN Returns(Message("error", <<"Invalid model:", modelId,
                                                "for provider", providerName>>),
                             <<called>>)
              ELSE Returns(Message("info",
                             <<"Switched to",
                               IF modelInfo = <<>> THEN undefined ELSE modelInfo[1].name,
                               modelId, "from", providerName>>),
                           <<setValue(SnapshotValue(saved.snap, saved.heap)), called>>)

\* case 'set'
setCase(d, hp, parts) ==
  IF Len(parts) < 2 THEN Returns(Message("error", <<"Usage: /models set <provider> <model>">>), <<>>)
  ELSE
    LET providerName == toLowerCase(parts[2])
        modelId == IF Len(parts) >= 3 THEN parts[3] ELSE undefined
        provider == setProviderSwitch(providerName)
    IN  IF provider = "none"
          THEN Returns(Message("error", <<"Unknown provider:", providerName>>), <<>>)
        ELSE IF modelId = undefined
          THEN Returns(Message("info", <<"Available models for", providerName>>
                                         \o ModelIds(getModelsForProvider(d, hp, provider))),
                       <<>>)
        ELSE
          LET res == setCurrentModel(d, hp, provider, modelId)
              called == MutatorCall("setCurrentModel", provider, <<modelId>>, res.ret)
              saved == toJSON("A", res.data, hp, "out")
              modelInfo == getCurrentModelInfo(res.data, hp)
          IN  IF res.ret = "throw" THEN Throws(<<called>>)
              ELSE IF res.ret = "false"
                THEN Returns(Message("error", <<"Invalid model:", modelId,
                                                "for provider", providerName>>),
                             <<called>>)
              ELSE Returns(Message("info",
                             <<"Switched to",
                               IF modelInfo = <<>> THEN undefined ELSE modelInfo[1].name,
                               modelId, "from", providerName>>),
                           <<called, setValue(SnapshotValue(saved.snap, saved.heap))>>)

\* case 'key' / 'apikey'
keyCase(d, hp, parts) ==
  IF Len(parts) < 3
    THEN Returns(Message("error", <<"Usage: /models key <provider> <api-key>">>), <<>>)
  ELSE
    LET keyProviderName == toLowerCase(parts[2])
        apiKey == join(SubSeq(parts, 3, Len(parts)))
        keyProvider == keyProviderSwitch(keyProviderName)
    IN  IF keyProvider = "none"
          THEN Returns(Message("error", <<"Unknown provider:", keyProviderName>>), <<>>)
        ELSE
          LET res == setProviderApiKey(d, hp, keyProvider, apiKey)
              called == MutatorCall("setProviderApiKey", keyProvider, apiKey, res.ret)
              saved == toJSON("A", d, res.heap, "out")
          IN  Returns(Message("info", <<"API key configured for", keyProviderName>>),
                      <<called, setValue(SnapshotValue(saved.snap, saved.heap))>>)

\* case 'current'
currentCase(d, hp) ==
  IF getCurrentModelInfoThrows(d, hp) THEN Throws(<<>>)
  ELSE
    LET currentModelInfo == getCurrentModelInfo(d, hp)
        currentProviderConfig == getProvider(d, hp, getCurrentProvider(d))
    IN  Returns(Message("info",
                  <<"Current model:",
                    IF currentModelInfo = <<>> THEN undefined ELSE currentModelInfo[1].name,
                    IF currentModelInfo = <<>> THEN undefined ELSE currentModelInfo[1].id,
                    "from",
                    IF currentProviderConfig = NoRef THEN undefined
                    ELSE hp.cfgs[currentProviderConfig].name>>), <<>>)

\* The registry an invocation works on: ModelRegistry.fromJSON of the
\* persisted value when there is one, else new ModelRegistry().
LoadRegistry(persisted) ==
  IF persisted = <<>> THEN ModelRegistry(EmptyHeap, "A", NoSnapshot)
  ELSE LET merged == Materialize(EmptyHeap, "in", persisted[1])
       IN  fromJSON(merged.heap, "A", merged.snap)

\* modelsCommand.action(context, args), given the value its read of
\* settings.merged.modelRegistry returned (<<>> when there is none).
action(persisted, args) ==
  LET parts == split(trim(args))
      subCommand == IF parts[1] = "" THEN "list" ELSE toLowerCase(parts[1])
      registry == LoadRegistry(persisted)
  IN  CASE subCommand \in {"list", "ls"} -> listCase(registry.data, registry.heap)
        [] subCommand = "set" -> setCase(registry.data, registry.heap, parts)
        [] subCommand \in {"key", "apikey"} -> keyCase(registry.data, registry.heap, parts)
        [] subCommand = "current" -> currentCase(registry.data, registry.heap)
        [] OTHER -> Returns(Message("error", <<"Unknown subcommand:", subCommand>>), <<>>)

\* The last write among the events of an invocation decides the value the
\* settings store holds afterwards: write(scope, key, snapshot) replaces the
\* stored value as a whole.
RECURSIVE Persist(_, _)
Persist(persisted, events) ==
  IF events = <<>> THEN persisted
  ELSE IF events[1].op = "setValue" THEN Persist(<<events[1].value>>, Tail(events))
  ELSE Persist(persisted, Tail(events))

\* The values the settings store holds when a session starts: none; the
\* snapshot of a registry with a selection and a key (the tests' existing
\* registry); a snapshot that names a selection only; and one that holds a
\* provider's credential and nothing else.
StoredValue(fields, cp, cm, shape) ==
  SnapshotValue([live |-> TRUE, top |-> "own", fields |-> fields,
                 currentProvider |-> IF "currentProvider" \in fields THEN cp ELSE undefined,
                 currentModel |-> IF "currentModel" \in fields THEN cm ELSE undefined,
                 providers |-> IF "providers" \in fields THEN "in" ELSE undefined],
                AllocProviders(EmptyHeap, "in", shape))

ExistingSnapshot == StoredValue(SnapshotFields, OPENAI, "gpt-4o", "full")

SelectionSnapshot ==
  StoredValue({"currentProvider", "currentModel"}, ANTHROPIC,
              "claude-3-5-sonnet-20241022", "full")

CredentialSnapshot == StoredValue({"providers"}, undefined, undefined, "keyOnly")

ValidStores == {<<>>, <<ExistingSnapshot>>}

InitialStores == ValidStores \cup {<<SelectionSnapshot>>, <<CredentialSnapshot>>}

\* The argument strings a user types.
ProviderTokens ==
  {"gemini", "Google", "openai", "GPT", "anthropic", "Claude", "Unknown", "__proto__"}

CommandModels == {"gemini-2.5-flash", "gpt-4o", "claude-3-5-sonnet-20241022", "invalid-model"}

SetCommands == {<<"set", " ", t, " ", m>> : t \in ProviderTokens, m \in CommandModels}

KeyCommands ==
  {<<"key", " ", t, " ", "sk">> : t \in ProviderTokens}
    \cup {<<"apikey", " ", "anthropic", " ", "sk", " ", "x">>}

OtherCommands ==
  {<<>>, <<" ">>, <<"list">>, <<" ", "LIST", " ">>, <<"ls">>, <<"current">>, <<"bogus">>,
   <<"Set">>, <<"set", " ", "openai">>, <<"set", " ", "Unknown">>,
   <<"key">>, <<"key", " ", "openai">>, <<"key", " ", "Unknown">>}

Commands == SetCommands \cup KeyCommands \cup OtherCommands

\* No invocation made yet.
NoInvocation == [args |-> <<>>, read |-> <<>>, outcome |-> Throws(<<>>), n |-> 0]

\* How many commands a session runs.
MaxCommands == 3

\* One invocation of the command, run to completion: it reads the stored
\* value, works on a registry of its own and makes its writes.
Invoke(args) ==
  /\ done.n < MaxCommands
  /\ LET outcome == action(store, args)
     IN  /\ store' = Persist(store, outcome.events)
         /\ done' = [args |-> args, read |-> store, outcome |-> outcome, n |-> done.n + 1]
  /\ UNCHANGED <<registryVars, dispatchVars, procs>>

\* Invocations that run at the same time, each in a session of its own:
\* the read of the stored value (the registry load) and the rest of the
\* handler, which ends in the write, are separate steps.
Procs == {"p1", "p2"}

ConcurrentCommands ==
  {<<"set", " ", "openai", " ", "gpt-4o">>,
   <<"set", " ", "Claude", " ", "claude-3-5-sonnet-20241022">>,
   <<"set", " ", "openai", " ", "invalid-model">>,
   <<"key", " ", "openai", " ", "sk">>,
   <<"key", " ", "anthropic", " ", "sk", " ", "x">>,
   <<"current">>}

Idle == [pc |-> "idle", args |-> <<>>, read |-> <<>>, outcome |-> Throws(<<>>)]

\* const modelRegistryData = context.services.settings.merged.modelRegistry
ReadSnapshot(p, args) ==
  /\ procs[p].pc = "idle"
  /\ procs' = [procs EXCEPT ![p] = [Idle EXCEPT !.pc = "loaded", !.args = args,
                                                !.read = store]]
  /\ UNCHANGED <<registryVars, dispatchVars, store, done>>

\* The rest of the handler, on the registry built from the value read.
Complete(p) ==
  /\ procs[p].pc = "loaded"
  /\ LET outcome == action(procs[p].read, procs[p].args)
     IN  /\ store' = Persist(store, outcome.events)
         /\ procs' = [procs EXCEPT ![p].pc = "done", ![p].outcome = outcome]
  /\ UNCHANGED <<registryVars, dispatchVars, done>>

Init ==
  /\ regs = [r \in RegIds |-> NoRegistry]
  /\ snaps = [s \in SnapIds |-> NoSnapshot]
  /\ heap = EmptyHeap
  /\ call = Called("none", "none", "none", "none")
  /\ budget = 0
  /\ gen = NoGenerator
  /\ store = <<>>
  /\ procs = [p \in Procs |-> Idle]
  /\ done = NoInvocation

\* A registry built from the defaults, and any sequence of mutator calls
\* on it with any arguments.
Next ==
  \/ /\ NewRegistry("A")
     /\ UNCHANGED <<budget, dispatchVars, commandVars>>
  \/ /\ \E p \in ProviderArgs, m \in ModelArgs : SetCurrentModel("A", p, m)
     /\ UNCHANGED <<budget, dispatchVars, commandVars>>
  \/ /\ \E p \in ProviderArgs, k \in KeyArgs : SetProviderApiKey("A", p, k)
     /\ UNCHANGED <<budget, dispatchVars, commandVars>>

Spec == Init /\ [][Next]_vars

\* The partial snapshots a caller takes from a valid RegistryState: any
\* subset of its three fields, the selection fields from one valid pair.
InputSelections ==
  {<<OPENAI, "gpt-4o">>, <<ANTHROPIC, "claude-3-5-sonnet-20241022">>}

\* A registry built from a caller's partial snapshot, and any sequence of
\* mutator calls on it.
NextPartial ==
  \/ /\ \E fields \in SUBSET SnapshotFields, sel \in InputSelections,
          shape \in ProviderShapes :
          /\ fields \cap {"currentProvider", "currentModel"} = {}
               => sel = <<OPENAI, "gpt-4o">>
          /\ "providers" \notin fields => shape = "full"
          /\ MakeInput(fields, sel[1], sel[2], shape)
     /\ UNCHANGED <<budget, dispatchVars, commandVars>>
  \/ /\ FromJSON("A", "in")
     /\ UNCHANGED <<budget, dispatchVars, commandVars>>
  \/ /\ \E p \in ProviderArgs, m \in ModelArgs : SetCurrentModel("A", p, m)
     /\ UNCHANGED <<budget, dispatchVars, commandVars>>
  \/ /\ \E p \in ProviderArgs : SetProviderApiKey("A", p, StoredKey)
     /\ UNCHANGED <<budget, dispatchVars, commandVars>>

SpecPartial == Init /\ [][NextPartial]_vars

\* The arguments of the calls made around a snapshot.
CopyProviders == {OPENAI, ANTHROPIC, "__proto__"}

CopyModels == {"gpt-4o", "claude-3-5-sonnet-20241022"}

CopyKeys == {StoredKey, <<" ", " ">>}

\* How many calls are made after a snapshot has been taken.
MaxLater == 1

\* A registry is built and mutated, then serialised; the snapshot is
\* restored into a second registry; then the snapshot, the first and the
\* second registry are mutated further.
NextCopy ==
  \/ /\ NewRegistry("A")
     /\ UNCHANGED <<budget, dispatchVars, commandVars>>
  \/ /\ ~snaps["out"].live
     /\ \E p \in CopyProviders, m \in CopyModels : SetCurrentModel("A", p, m)
     /\ UNCHANGED <<budget, dispatchVars, commandVars>>
  \/ /\ ~snaps["out"].live
     /\ \E p \in CopyProviders, k \in CopyKeys : SetProviderApiKey("A", p, k)
     /\ UNCHANGED <<budget, dispatchVars, commandVars>>
  \/ /\ ToJSON("A", "out")
     /\ UNCHANGED <<budget, dispatchVars, commandVars>>
  \/ /\ FromJSON("B", "out")
     /\ UNCHANGED <<budget, dispatchVars, commandVars>>
  \/ /\ snaps["out"].live
     /\ budget < MaxLater
     /\ budget' = budget + 1
     /\ UNCHANGED <<dispatchVars, commandVars>>
     /\ \/ \E r \in RegIds, p \in CopyProviders, m \in CopyModels : SetCurrentModel(r, p, m)
        \/ \E r \in RegIds, p \in CopyProviders, k \in CopyKeys : SetProviderApiKey(r, p, k)
        \/ \E p \in ModelProvider, m \in CopyModels : SnapSetSelection("out", p, m)
        \/ \E p \in ModelProvider, k \in CopyKeys : SnapSetApiKey("out", p, k)
        \/ \E p \in ModelProvider : SnapPopModel("out", p)

SpecCopy == Init /\ [][NextCopy]_vars

\* A generator is requested for a selection and its methods are called.
NextDispatch ==
  \/ \E provider \in ConfigProviders, model \in ConfigModels :
       CreateGenerator(MultiProviderConfig(provider, model))
  \/ \E method \in Methods : CallMethod(method)

SpecDispatch == Init /\ [][NextDispatch]_vars

\* A session of commands, one after the other, over any stored value.
InitCommands ==
  /\ regs = [r \in RegIds |-> NoRegistry]
  /\ snaps = [s \in SnapIds |-> NoSnapshot]
  /\ heap = EmptyHeap
  /\ call = Called("none", "none", "none", "none")
  /\ budget = 0
  /\ gen = NoGenerator
  /\ store \in InitialStores
  /\ procs = [p \in Procs |-> Idle]
  /\ done = NoInvocation

NextCommands == \E args \in Commands : Invoke(args)

SpecCommands == InitCommands /\ [][NextCommands]_vars

\* Two invocations at the same time, over a stored value that is absent or
\* a valid RegistryState.
InitConcurrent ==
  /\ regs = [r \in RegIds |-> NoRegistry]
  /\ snaps = [s \in SnapIds |-> NoSnapshot]
  /\ heap = EmptyHeap
  /\ call = Called("none", "none", "none", "none")
  /\ budget = 0
  /\ gen = NoGenerator
  /\ store \in ValidStores
  /\ procs = [p \in Procs |-> Idle]
  /\ done = NoInvocation

\* The session is ready for its next command.
Return(p) ==
  /\ procs[p].pc = "done"
  /\ procs' = [procs EXCEPT ![p] = Idle]
  /\ UNCHANGED <<registryVars, dispatchVars, store, done>>

NextConcurrent ==
  \/ \E p \in Procs, args \in ConcurrentCommands : ReadSnapshot(p, args)
  \/ \E p \in Procs : Complete(p)
  \/ \E p \in Procs : Return(p)

SpecConcurrent == InitConcurrent /\ [][NextConcurrent]_vars

\* Two invocations at the same time, one command each.
NextRace ==
  \/ \E p \in Procs, args \in ConcurrentCommands : ReadSnapshot(p, args)
  \/ \E p \in Procs : Complete(p)

SpecRace == InitConcurrent /\ [][NextRace]_vars

\* Two registries built from the same value a caller holds, and mutator
\* calls on either.
SharedProviders == {GEMINI, OPENAI, "invalid"}

SharedModels == {"gpt-4o", "invalid-model"}

SharedKeys == {<<" ", " ">>}

NextShared ==
  \/ /\ \E fields \in SUBSET SnapshotFields, sel \in InputSelections,
          shape \in ProviderShapes :
          /\ fields \cap {"currentProvider", "currentModel"} = {}
               => sel = <<OPENAI, "gpt-4o">>
          /\ "providers" \notin fields => shape = "full"
          /\ MakeInput(fields, sel[1], sel[2], shape)
     /\ UNCHANGED <<budget, dispatchVars, commandVars>>
  \/ /\ \E r \in RegIds : FromJSON(r, "in")
     /\ UNCHANGED <<budget, dispatchVars, commandVars>>
  \/ /\ \E r \in RegIds, p \in SharedProviders, m \in SharedModels : SetCurrentModel(r, p, m)
     /\ UNCHANGED <<budget, dispatchVars, commandVars>>
  \/ /\ \E r \in RegIds, p \in SharedProviders, k \in SharedKeys : SetProviderApiKey(r, p, k)
     /\ UNCHANGED <<budget, dispatchVars, commandVars>>

SpecShared == Init /\ [][NextShared]_vars

(***************************************************************************)
(* Properties                                                              *)
(***************************************************************************)

\* The own keys of a registry's providers object.
KnownProviders(d, hp) ==
  {hp.maps[d.providers].entries[i].key : i \in 1..Len(hp.maps[d.providers].entries)}

\* The ids of the models a known provider's own `models` array holds.
ModelIdsOf(d, hp, p) ==
  LET value == ConfigValue(hp, Lookup(hp, d.providers, p))
  IN  IF value.models = <<undefined>> THEN {}
      ELSE {value.models[i].id : i \in 1..Len(value.models)}

ValidSelection(d, hp, p, m) ==
  /\ p \in KnownProviders(d, hp)
  /\ m \in ModelIdsOf(d, hp, p)

\* The key stored in a known provider's own config.
StoredApiKey(d, hp, p) == ConfigValue(hp, Lookup(hp, d.providers, p)).apiKey

\* A key that holds at least one character that is not whitespace.
HasContent(k) ==
  /\ k # undefinedKey
  /\ \E i \in 1..Len(k) : k[i] # " "

\* The current selection names a provider the registry holds and one of
\* that provider's models, and getCurrentModelInfo() returns that model.
ValidRegistry(d, hp) ==
  /\ ValidSelection(d, hp, d.currentProvider, d.currentModel)
  /\ ~getCurrentModelInfoThrows(d, hp)
  /\ Len(getCurrentModelInfo(d, hp)) = 1
  /\ getCurrentModelInfo(d, hp)[1].id = getCurrentModel(d)

\* C1: setCurrentModel(p, m) returns true and sets both fields to (p, m) when
\* p is a known provider and m one of its models; for every other (p, m) it
\* returns false and leaves the selection as it was.
AtomicSelection ==
  [][\A p \in ProviderArgs, m \in ModelArgs :
       SetCurrentModel("A", p, m) =>
         IF ValidSelection(regs["A"], heap, p, m)
           THEN /\ call'.ret = "true"
                /\ regs'["A"].currentProvider = p
                /\ regs'["A"].currentModel = m
           ELSE /\ call'.ret = "false"
                /\ regs'["A"].currentProvider = regs["A"].currentProvider
                /\ regs'["A"].currentModel = regs["A"].currentModel]_vars

\* C2: from a default-constructed registry, after any sequence of
\* setCurrentModel and setProviderApiKey calls with any arguments, the
\* current provider is a key of providers, the current model is one of its
\* models, and getCurrentModelInfo() is that model.
SelectionValid == regs["A"].live => ValidRegistry(regs["A"], heap)

\* A rejected setCurrentModel after an accepted one and a stored key.
SelectionValidWitness ==
  /\ call.op = "setCurrentModel"
  /\ call.ret = "false"
  /\ regs["A"].currentProvider = ANTHROPIC
  /\ StoredApiKey(regs["A"], heap, OPENAI) = <<" ", "k">>

\* The providers field of a partial snapshot, when it has one, is the
\* providers mapping of a valid RegistryState: the three providers, each
\* with its models.
FromValidState(sn, hp) ==
  "providers" \in sn.fields =>
     /\ KnownProviders(sn, hp) = ModelProvider
     /\ \A p \in ModelProvider : ModelIdsOf(sn, hp, p) # {}

\* C3: the registry fromJSON builds from any subset of the fields of a valid
\* RegistryState has a valid selection.
FromSnapshotValid ==
  (call.op = "fromJSON" /\ call.reg = "A" /\ FromValidState(snaps["in"], heap))
     => ValidRegistry(regs["A"], heap)

\* The `provider` of each config getProviders() returns, in order.
ProviderIds(d, hp) ==
  [i \in 1..Len(getProviders(d, hp)) |-> hp.cfgs[getProviders(d, hp)[i]].provider]

\* C4: getProviders() returns exactly GEMINI, OPENAI, ANTHROPIC, in that
\* order, however the registry was constructed and whatever was called on it.
ClosedProviderSet ==
  regs["A"].live => ProviderIds(regs["A"], heap) = <<GEMINI, OPENAI, ANTHROPIC>>

\* C5: a registry restored from another's toJSON() answers every getter as
\* the original does: selection, API key of every provider, model lists.
RoundTrip ==
  (regs["B"].live /\ budget = 0) =>
     Observe(regs["B"], heap) = Observe(regs["A"], heap)

\* A registry restored from one whose selection and keys had been changed.
RoundTripWitness ==
  /\ regs["B"].live
  /\ budget = 0
  /\ call.op = "fromJSON"
  /\ getCurrentModel(regs["B"]) = "claude-3-5-sonnet-20241022"
  /\ getProviderApiKey(regs["B"], heap, OPENAI) = <<" ", "k">>
  /\ getProviderApiKey(regs["B"], heap, ANTHROPIC) = <<" ", " ">>

\* The ids of the models getModelsForProvider(p) returns, in order.
ListedModelIds(d, hp, p) ==
  [i \in 1..Len(getModelsForProvider(d, hp, p)) |-> getModelsForProvider(d, hp, p)[i].id]

\* C6: built from a partial snapshot without a providers field, the registry
\* holds the three default providers with their default models, each
\* selection field the snapshot supplies overrides the default and each one
\* it omits keeps it.
OverlayCorrect ==
  (call.op = "fromJSON" /\ call.reg = "A" /\ "providers" \notin snaps["in"].fields) =>
     /\ ProviderIds(regs["A"], heap) = <<GEMINI, OPENAI, ANTHROPIC>>
     /\ ListedModelIds(regs["A"], heap, GEMINI)
          = <<"gemini-2.5-pro", "gemini-2.5-flash", "gemini-1.5-pro">>
     /\ ListedModelIds(regs["A"], heap, OPENAI)
          = <<"gpt-4o", "gpt-4o-mini", "gpt-4-turbo">>
     /\ ListedModelIds(regs["A"], heap, ANTHROPIC)
          = <<"claude-3-5-sonnet-20241022", "claude-3-5-haiku-20241022",
              "claude-3-opus-20240229">>
     /\ getCurrentProvider(regs["A"]) =
          IF "currentProvider" \in snaps["in"].fields
            THEN snaps["in"].currentProvider ELSE GEMINI
     /\ getCurrentModel(regs["A"]) =
          IF "currentModel" \in snaps["in"].fields
            THEN snaps["in"].currentModel ELSE "gemini-2.5-pro"

\* Built from {currentProvider: anthropic, currentModel: claude-3-5-sonnet}.
OverlayCorrectWitness ==
  /\ call.op = "fromJSON"
  /\ snaps["in"].fields = {"currentProvider", "currentModel"}
  /\ getCurrentProvider(regs["A"]) = ANTHROPIC
  /\ getCurrentModel(regs["A"]) = "claude-3-5-sonnet-20241022"
  /\ Len(getProviders(regs["A"], heap)) = 3

\* C7: hasValidApiKey(p) is true exactly when a key is stored for p and the
\* key has a character that is not whitespace.
KeyBlankPolicy ==
  regs["A"].live =>
    \A p \in ModelProvider :
      hasValidApiKey(regs["A"], heap, p) <=> HasContent(StoredApiKey(regs["A"], heap, p))

\* C8: setProviderApiKey(p, k) returns true exactly when p is a known
\* provider, and then getProviderApiKey(p) is k as given; otherwise it
\* returns false and changes nothing.
StoresKeyVerbatim ==
  [][\A p \in ProviderArgs, k \in KeyArgs :
       SetProviderApiKey("A", p, k) =>
         IF p \in KnownProviders(regs["A"], heap)
           THEN /\ call'.ret = "true"
                /\ getProviderApiKey(regs'["A"], heap', p) = k
           ELSE /\ call'.ret = "false"
                /\ regs' = regs
                /\ heap' = heap]_vars

\* C9: mutating the value toJSON() returned changes nothing a getter of the
\* registry returns, and a later mutator call on the registry changes
\* nothing in the value.
SnapshotIndependent ==
  [][/\ call'.op \in {"snapSetSelection", "snapSetApiKey", "snapPopModel"}
          => Observe(regs'["A"], heap') = Observe(regs["A"], heap)
     /\ (snaps["out"].live /\ call'.reg = "A"
           /\ call'.op \in {"setCurrentModel", "setProviderApiKey"})
          => SnapshotValue(SnapData("out"), heap)' = SnapshotValue(SnapData("out"), heap)]_vars

\* The caller has popped a model off the returned value's OpenAI list and
\* the registry still lists three.
SnapshotIndependentWitness ==
  /\ call.op = "snapPopModel"
  /\ Len(SnapshotValue(SnapData("out"), heap).providers[2].value.models) = 2
  /\ Len(getModelsForProvider(regs["A"], heap, OPENAI)) = 3

\* C10: setCurrentModel and setProviderApiKey end by returning true or
\* false, on every registry the constructor or fromJSON builds.
MutatorsNeverRaise ==
  call.op \in {"setCurrentModel", "setProviderApiKey"} => call.ret \in {"true", "false"}

\* C11: createProviderContentGenerator returns a generator exactly for
\* OPENAI (an OpenAIContentGenerator) and ANTHROPIC (an
\* AnthropicContentGenerator); for every other provider value it throws
\* "Unsupported provider" at construction, no object is returned and no
\* method is ever called.
DispatchFailFast ==
  gen.state # "none" =>
    /\ gen.state = "made" <=> gen.config.provider \in {OPENAI, ANTHROPIC}
    /\ gen.config.provider = OPENAI => gen.class = "OpenAIContentGenerator"
    /\ gen.config.provider = ANTHROPIC => gen.class = "AnthropicContentGenerator"
    /\ gen.state = "failed" =>
         /\ gen.class = "none"
         /\ gen.error = <<"Unsupported", "provider:", gen.config.provider>>
         /\ gen.log = <<>>

\* The factory has refused the Gemini provider.
DispatchFailFastWitness ==
  /\ gen.state = "failed"
  /\ gen.config.provider = GEMINI

\* The name a generator class gives its provider in messages.
StubName(class) == IF class = "OpenAIContentGenerator" THEN "OpenAI" ELSE "Anthropic"

\* C12: constructing the OPENAI or ANTHROPIC generator succeeds, and every
\* call of any of the four methods, in any order and number, is rejected
\* with a not-implemented error that names the generator's own provider and
\* recommends Gemini; no response and no stream chunk is ever produced.
StubPolicy ==
  /\ (gen.state # "none" /\ gen.config.provider \in {OPENAI, ANTHROPIC}) => gen.state = "made"
  /\ \A i \in 1..Len(gen.log) :
       /\ gen.log[i].outcome.settled = "rejected"
       /\ gen.log[i].outcome.response = <<>>
       /\ gen.log[i].outcome.chunks = 0
       /\ gen.log[i].outcome.error[1] = StubName(gen.class)
       /\ SubSeq(gen.log[i].outcome.error, 2, 6)
            = <<"provider", "is", "not", "yet", "implemented.">>
       /\ SubSeq(gen.log[i].outcome.error, 7, 9) = <<"Please", "use", "Gemini">>

\* Three calls on an Anthropic generator, the stream method twice.
StubPolicyWitness ==
  /\ gen.class = "AnthropicContentGenerator"
  /\ Len(gen.log) = MaxCalls
  /\ gen.log[1].method = "generateContentStream"
  /\ gen.log[2].method = "embedContent"
  /\ gen.log[3].method = "generateContentStream"

\* The words of the last command, its subcommand, and the registry it
\* loaded from the value it read.
DoneParts == split(trim(done.args))

DoneSubCommand == IF DoneParts[1] = "" THEN "list" ELSE toLowerCase(DoneParts[1])

DoneRegistry == LoadRegistry(done.read)

\* The provider a token names under the aliasing rule, case-insensitively.
ExpectedProvider(token) ==
  CASE token \in {"gemini", "google", "Google"} -> GEMINI
    [] token \in {"openai", "gpt", "GPT"} -> OPENAI
    [] token \in {"anthropic", "claude", "Claude"} -> ANTHROPIC
    [] OTHER -> "none"

\* The catalog and credentials an invocation read: the providers of the
\* persisted value, or the defaults when it has none.
CatalogRead ==
  IF done.read # <<>> /\ "providers" \in done.read[1].fields THEN done.read[1].providers
  ELSE ProvidersValue(AllocDefaults(EmptyHeap, "A"), "A")

\* C13: a `set <provider> <model>` with a recognised alias and a model of
\* that provider returns an info result and makes exactly one write (User
\* scope, key 'modelRegistry'), after the selection change; the snapshot
\* written has the requested pair and the catalog and credentials read.
SetPersists ==
  (/\ done.n > 0
   /\ DoneSubCommand = "set"
   /\ Len(DoneParts) >= 3
   /\ ExpectedProvider(DoneParts[2]) # "none"
   /\ ValidSelection(DoneRegistry.data, DoneRegistry.heap,
                     ExpectedProvider(DoneParts[2]), DoneParts[3]))
  => /\ ~done.outcome.throws
     /\ done.outcome.result.messageType = "info"
     /\ Len(done.outcome.events) = 2
     /\ done.outcome.events[1] =
          MutatorCall("setCurrentModel", ExpectedProvider(DoneParts[2]),
                      <<DoneParts[3]>>, "true")
     /\ done.outcome.events[2].op = "setValue"
     /\ done.outcome.events[2].scope = "User"
     /\ done.outcome.events[2].key = "modelRegistry"
     /\ done.outcome.events[2].value.currentProvider = ExpectedProvider(DoneParts[2])
     /\ done.outcome.events[2].value.currentModel = DoneParts[3]
     /\ done.outcome.events[2].value.providers = CatalogRead
     /\ store = <<done.outcome.events[2].value>>

\* `set Claude claude-3-5-sonnet-20241022` over the snapshot that holds an
\* OpenAI selection and key.
SetPersistsWitness ==
  /\ done.args = <<"set", " ", "Claude", " ", "claude-3-5-sonnet-20241022">>
  /\ done.read = <<ExistingSnapshot>>
  /\ store # <<>>
  /\ store[1].currentProvider = ANTHROPIC
  /\ store[1].providers[2].value.apiKey = StoredKey

\* The last command was a set or key command with a provider token, and
\* with the arguments its subcommand requires.
HasProviderToken ==
  /\ done.n > 0
  /\ DoneSubCommand \in {"set", "key", "apikey"}
  /\ Len(DoneParts) >= 2

HasRequiredArguments == DoneSubCommand \in {"key", "apikey"} => Len(DoneParts) >= 3

\* What the aliasing rule requires of the last command.
AliasingRule ==
  IF ExpectedProvider(DoneParts[2]) = "none"
    THEN /\ ~done.outcome.throws
         /\ done.outcome.result.messageType = "error"
         /\ done.outcome.result.content = <<"Unknown provider:", toLowerCase(DoneParts[2])>>
         /\ done.outcome.events = <<>>
    ELSE /\ \A i \in 1..Len(done.outcome.events) :
              done.outcome.events[i].op # "setValue"
                => done.outcome.events[i].provider = ExpectedProvider(DoneParts[2])
         /\ Len(DoneParts) >= 3 => done.outcome.events # <<>>

\* C14 (as stated): for set and key, the provider token maps gemini|google,
\* openai|gpt, anthropic|claude, case-insensitively; any other token gives
\* an error result naming the token, no mutator call and no write.
ProviderAliasingAnyCommand == HasProviderToken => AliasingRule

\* C14 (amended): the same, for `set <token> ...` and for
\* `key <token> <api-key>`, that is a key command that carries a key.
ProviderAliasing == (HasProviderToken /\ HasRequiredArguments) => AliasingRule

\* `key Unknown sk` has been rejected.
ProviderAliasingWitness ==
  /\ done.args = <<"key", " ", "Unknown", " ", "sk">>
  /\ done.outcome.result.content = <<"Unknown provider:", "unknown">>
  /\ done.outcome.events = <<>>

\* C15: a registry built from a snapshot value shares no mutable state with
\* the value or with another registry built from it: a setCurrentModel or
\* setProviderApiKey on one registry changes neither the value that was
\* passed in nor any getter result of the other registry.
NoSharedState ==
  [][\A r \in RegIds :
       (call'.reg = r /\ call'.op \in {"setCurrentModel", "setProviderApiKey"}) =>
          /\ SnapshotValue(SnapData("in"), heap)' = SnapshotValue(SnapData("in"), heap)
          /\ \A o \in RegIds \ {r} :
               regs[o].live => Observe(regs'[o], heap') = Observe(regs[o], heap)]_vars

\* C16: for a provider identifier outside the three, getProvider returns
\* undefined, getModelsForProvider the empty sequence, getProviderApiKey
\* undefined and hasValidApiKey false.
ReadsDegrade ==
  regs["A"].live =>
    \A p \in ProviderArgs \ ModelProvider :
      /\ getProvider(regs["A"], heap, p) = NoRef
      /\ getModelsForProvider(regs["A"], heap, p) = <<>>
      /\ getProviderApiKey(regs["A"], heap, p) = undefinedKey
      /\ ~hasValidApiKey(regs["A"], heap, p)

\* The last command wrote to the settings store.
DoneWrote == \E i \in 1..Len(done.outcome.events) : done.outcome.events[i].op = "setValue"

\* C17: an invocation writes to the settings store only if it is a set
\* whose setCurrentModel returned true, or a key with a recognised alias and
\* a key argument; list, ls, empty args, current, set without a model, an
\* unknown subcommand and every invocation that returns an error write
\* nothing.
WritesOnlyOnSuccess ==
  done.n > 0 =>
    /\ DoneWrote =>
         \/ /\ DoneSubCommand = "set"
            /\ \E i \in 1..Len(done.outcome.events) :
                 /\ done.outcome.events[i].op = "setCurrentModel"
                 /\ done.outcome.events[i].ret = "true"
         \/ /\ DoneSubCommand \in {"key", "apikey"}
            /\ Len(DoneParts) >= 3
            /\ ExpectedProvider(DoneParts[2]) # "none"
    /\ DoneSubCommand \notin {"set", "key", "apikey"} => ~DoneWrote
    /\ (DoneSubCommand = "set" /\ Len(DoneParts) <= 2) => ~DoneWrote
    /\ done.outcome.result.messageType = "error" => ~DoneWrote
    /\ ~DoneWrote => store = done.read

\* A set with an invalid model, after an earlier command had written.
WritesOnlyOnSuccessWitness ==
  /\ done.n = 2
  /\ done.args = <<"set", " ", "openai", " ", "invalid-model">>
  /\ done.outcome.result.messageType = "error"
  /\ done.read # <<>>
  /\ store = done.read

\* A persisted value names a provider it holds and one of its models.
PersistedValid(persisted) ==
  persisted # <<>> =>
    /\ "providers" \in persisted[1].fields
    /\ \E i \in 1..Len(persisted[1].providers) :
         /\ persisted[1].providers[i].key = persisted[1].currentProvider
         /\ persisted[1].providers[i].value.models # <<undefined>>
         /\ \E j \in 1..Len(persisted[1].providers[i].value.models) :
              persisted[1].providers[i].value.models[j].id = persisted[1].currentModel

\* C18: from a stored value that is absent or a valid RegistryState, under
\* every interleaving of invocations the stored value, and every value an
\* invocation has read, has its current model among the models of its
\* current provider.
PersistedAlwaysValid ==
  /\ PersistedValid(store)
  /\ \A p \in Procs : procs[p].pc # "idle" => PersistedValid(procs[p].read)

\* Two set commands that both read before either wrote.
PersistedAlwaysValidWitness ==
  /\ procs["p1"].pc = "done" /\ procs["p2"].pc = "done"
  /\ procs["p1"].args = <<"set", " ", "openai", " ", "gpt-4o">>
  /\ procs["p2"].args = <<"set", " ", "Claude", " ", "claude-3-5-sonnet-20241022">>
  /\ procs["p1"].read = <<>> /\ procs["p2"].read = <<>>
  /\ store # <<>>
  /\ store[1].currentProvider = ANTHROPIC

\* An invocation has finished, reported success and written.
Succeeded(p) ==
  /\ procs[p].pc = "done"
  /\ procs[p].outcome.result.messageType = "info"
  /\ \E i \in 1..Len(procs[p].outcome.events) : procs[p].outcome.events[i].op = "setValue"

ProcParts(p) == split(trim(procs[p].args))

\* The stored value shows the mutation an invocation made.
Reflected(p) ==
  /\ store # <<>>
  /\ IF ProcParts(p)[1] = "set"
       THEN /\ store[1].currentProvider = ExpectedProvider(ProcParts(p)[2])
            /\ store[1].currentModel = ProcParts(p)[3]
       ELSE \E i \in 1..Len(store[1].providers) :
              /\ store[1].providers[i].key = ExpectedProvider(ProcParts(p)[2])
              /\ store[1].providers[i].value.apiKey
                   = join(SubSeq(ProcParts(p), 3, Len(ProcParts(p))))

\* C19: when a set and a key invocation, or two key invocations for
\* different providers, both report success, the stored value reflects both
\* mutations, under every interleaving of their reads and writes.
NoLostUpdate ==
  (/\ Succeeded("p1") /\ Succeeded("p2")
   /\ ~(ProcParts("p1")[1] = "set" /\ ProcParts("p2")[1] = "set")
   /\ (ProcParts("p1")[1] = "key" /\ ProcParts("p2")[1] = "key")
        => ExpectedProvider(ProcParts("p1")[2]) # ExpectedProvider(ProcParts("p2")[2]))
  => Reflected("p1") /\ Reflected("p2")

\* C20: whenever `key <provider> <api-key>` returns 'API key configured for
\* <provider>', the snapshot it wrote holds the supplied key as the apiKey
\* of the mapped provider.
KeyReportsStored ==
  (/\ done.n > 0
   /\ DoneSubCommand \in {"key", "apikey"}
   /\ ~done.outcome.throws
   /\ done.outcome.result.messageType = "info")
  => /\ store # <<>>
     /\ DoneWrote
     /\ "providers" \in store[1].fields
     /\ \E i \in 1..Len(store[1].providers) :
          /\ store[1].providers[i].key = ExpectedProvider(DoneParts[2])
          /\ store[1].providers[i].value.apiKey = join(SubSeq(DoneParts, 3, Len(DoneParts)))

====
